---------------------------- MODULE Spec2Model ----------------------------
(***************************************************************************)
(* A model of the semantic-search-engine repository (src/app):             *)
(*   - chunk.py   sliding_window_chunk      (specification SpecChunk)      *)
(*   - db.py      the chunks / chunks_fts triggers (specification SpecSync)*)
(*   - search.py  build_faiss_index, load_index, semantic_search and       *)
(*     main.py    the /search handler       (specification SpecIndex)      *)
(* Strings that the code splits or joins are sequences of one-character    *)
(* strings.                                                                *)
(***************************************************************************)
EXTENDS Integers, Sequences, FiniteSets, Bags, TLC

VARIABLES
    \* ---- chunk.py: one call of sliding_window_chunk
    ck_pc,          \* "off" | "call" | "loop" | "done"
    text,           \* the argument text
    window_size,    \* the argument window_size
    overlap,        \* the argument overlap
    tokens,         \* chunk.py:6
    chunks_out,     \* chunk.py:7   the local list `chunks`
    start,          \* chunk.py:8
    ck_outcome,     \* "none" | "returned"   (the function has no raise)
    \* ---- db.py: the chunks table, its full-text index and one SQL statement
    chunks,         \* db.py:40  rows of chunks as a reader sees them
    chunks_fts,     \* db.py:49  entries of the full-text index as a reader sees them (a bag)
    st_pc,          \* "off" | "idle" | "running": the statement being executed
    st_op,          \* the last statement: [kind, old, new, failed]
    wchunks,        \* chunks as changed so far by the running statement
    wfts,           \* chunks_fts as changed so far by the running statement
    prog,           \* trigger commands the running statement has still to execute
    pre_chunks,     \* chunks when the last statement began (its journal)
    pre_fts,        \* chunks_fts when the last statement began (its journal)
    sq_result,      \* "none" | "ok" | "constraint" | "error": how the last statement ended
    \* ---- search.py / main.py: the persisted index pair, one build, one search
    index_file,     \* INDEX_PATH (search.py:10): [state, src, vectors]
    meta_file,      \* META_PATH  (search.py:9):  [state, src, map]
    b_pc,           \* build_faiss_index: "off" | "idle" | "encoded" | "index_open" | "index_written" | "meta_open"
    b_docs,         \* search.py:39  docs of the running or last build
    b_index,        \* search.py:51-55  the in-memory index (its vectors, by position)
    b_outcome,      \* "none" | "ok" | "IndexError": how the last build ended
    s_pc,           \* a search: "idle" | "read_index" | "read_meta" | "search" | "done"
    s_entry,        \* "none" | "direct" (semantic_search called) | "endpoint" (POST /search)
    s_query,        \* the query
    s_top_k,        \* top_k
    s_metric,       \* the metric query parameter of the endpoint
    s_index,        \* search.py:78  the index load_index read
    s_meta,         \* search.py:80  the metadata load_index read
    s_results,      \* search.py:99  results
    s_outcome       \* "none" | "ok" | an exception name

chunkVars == <<ck_pc, text, window_size, overlap, tokens, chunks_out, start, ck_outcome>>
syncVars == <<chunks, chunks_fts, st_pc, st_op, wchunks, wfts, prog, pre_chunks, pre_fts, sq_result>>

indexVars == <<index_file, meta_file, b_pc, b_docs, b_index, b_outcome,
               s_pc, s_entry, s_query, s_top_k, s_metric, s_index, s_meta, s_results, s_outcome>>

vars == <<chunkVars, syncVars, indexVars>>

Max(a, b) == IF a >= b THEN a ELSE b
Min(a, b) == IF a <= b THEN a ELSE b

(***************************************************************************)
(* Bounds of the chunker model.                                            *)
(***************************************************************************)
MaxTextLen == 7     \* longest enumerated text, in characters
MaxWindow  == 4     \* largest window_size / overlap tried
MaxChunks  == 8     \* cap on loop iterations (only a diverging call gets there)

Chars == {"a", "b", " "}

RECURSIVE TextsOfLen(_)
TextsOfLen(n) ==
    IF n = 0 THEN {<<>>}
    ELSE {Append(t, c) : t \in TextsOfLen(n - 1), c \in Chars}

\* the literal case of the specification: seven tokens a..g
ExampleText == <<"a", " ", "b", " ", "c", " ", "d", " ", "e", " ", "f", " ", "g">>

Texts == UNION {TextsOfLen(n) : n \in 0..MaxTextLen} \cup {ExampleText}

(***************************************************************************)
(* Python helpers used by sliding_window_chunk                             *)
(***************************************************************************)
\* str.split() with no argument: maximal runs of non-whitespace characters
RECURSIVE SplitFrom(_, _, _, _)
SplitFrom(s, i, cur, acc) ==
    IF i > Len(s) THEN (IF cur = <<>> THEN acc ELSE Append(acc, cur))
    ELSE IF s[i] = " "
         THEN SplitFrom(s, i + 1, <<>>, IF cur = <<>> THEN acc ELSE Append(acc, cur))
         ELSE SplitFrom(s, i + 1, Append(cur, s[i]), acc)

split(s) == SplitFrom(s, 1, <<>>, <<>>)

\* ' '.join(list)
RECURSIVE join(_)
join(toks) ==
    IF toks = <<>> THEN <<>>
    ELSE IF Len(toks) = 1 THEN toks[1]
    ELSE toks[1] \o <<" ">> \o join(Tail(toks))

\* a slice bound as Python normalises it for a sequence of length n
PyBound(i, n) == IF i < 0 THEN Max(i + n, 0) ELSE Min(i, n)

\* seq[a:b] (0-based, end exclusive, negative bounds counted from the end)
Slice(s, a, b) ==
    LET lo == PyBound(a, Len(s))
        hi == PyBound(b, Len(s))
    IN  IF lo < hi THEN SubSeq(s, lo + 1, hi) ELSE <<>>

\* chunk.py:11
WindowEnd(st, ws) == st + ws

\* a stride that forgets the overlap
AdvanceNoOverlap(st, ws, ov) == st + ws

\* chunk.py:22
Advance(st, ws, ov) == st + ws - ov

\* a break that fires only once the window end has passed the last token
ShouldBreakStrict(end, n) == end > n

\* chunk.py:30
ShouldBreak(end, n) == end >= n

(***************************************************************************)
(* sliding_window_chunk as a state machine                                 *)
(***************************************************************************)
ChunkOff ==
    /\ ck_pc = "off"
    /\ text = <<>>
    /\ window_size = 0
    /\ overlap = 0
    /\ tokens = <<>>
    /\ chunks_out = <<>>
    /\ start = 0
    /\ ck_outcome = "none"

\* a call with any text, any positive window_size and any overlap >= 0
ChunkInit ==
    /\ ck_pc = "call"
    /\ text \in Texts
    /\ window_size \in 1..MaxWindow
    /\ overlap \in 0..MaxWindow
    /\ tokens = <<>>
    /\ chunks_out = <<>>
    /\ start = 0
    /\ ck_outcome = "none"

\* chunk.py:6-8
ChunkEnter ==
    /\ ck_pc = "call"
    /\ tokens' = split(text)
    /\ chunks_out' = <<>>
    /\ start' = 0
    /\ ck_pc' = "loop"
    /\ UNCHANGED <<text, window_size, overlap, ck_outcome>>
    /\ UNCHANGED <<syncVars, indexVars>>

\* chunk.py:10-31, one iteration of the while loop
ChunkIterate ==
    /\ ck_pc = "loop"
    /\ start < Len(tokens)
    /\ Len(chunks_out) < MaxChunks
    /\ LET end == WindowEnd(start, window_size)
           chunk_tokens == Slice(tokens, start, end)
           chunk_text == join(chunk_tokens)
       IN  /\ chunks_out' = Append(chunks_out, chunk_text)
           /\ start' = Advance(start, window_size, overlap)
           /\ IF ShouldBreak(end, Len(tokens))
              THEN ck_pc' = "done" /\ ck_outcome' = "returned"
              ELSE ck_pc' = "loop" /\ ck_outcome' = ck_outcome
    /\ UNCHANGED <<text, window_size, overlap, tokens>>
    /\ UNCHANGED <<syncVars, indexVars>>

\* chunk.py:10 false, then chunk.py:33
ChunkExit ==
    /\ ck_pc = "loop"
    /\ ~(start < Len(tokens))
    /\ ck_pc' = "done"
    /\ ck_outcome' = "returned"
    /\ UNCHANGED <<text, window_size, overlap, tokens, chunks_out, start>>
    /\ UNCHANGED <<syncVars, indexVars>>


(***************************************************************************)
(* db.py: chunks, chunks_fts and the triggers chunks_ai, chunks_ad,        *)
(* chunks_au.  A row is [rowid, chunk_id, text]; an index entry is the row *)
(* it was built from; the index is a bag, so that an entry added twice is  *)
(* held twice.  A statement works on its own copy of the two tables, which *)
(* readers and other writers see only once the statement has ended.        *)
(***************************************************************************)
MaxRowid == 3       \* largest rowid the model hands out

ChunkIds == {"c1", "c2"}
RowTexts == {"wireless sensor", "battery lifetime"}

NoRow == [rowid |-> 0, chunk_id |-> "", text |-> ""]
NoOp  == [kind |-> "none", old |-> NoRow, new |-> NoRow, steps |-> 0, failed |-> 0]

\* the rowid SQLite gives a new row of a table without an INTEGER PRIMARY KEY
NextRowid(rows) ==
    IF rows = {} THEN 1
    ELSE (CHOOSE m \in {r.rowid : r \in rows} : \A r \in rows : r.rowid <= m) + 1

\* db.py:66-69   AFTER INSERT
chunks_ai(new) == << [cmd |-> "insert", row |-> new] >>

\* a delete trigger that leaves the index alone
chunks_ad_Missing(old) == <<>>

\* db.py:73-76   AFTER DELETE
chunks_ad(old) == << [cmd |-> "delete", row |-> old] >>

\* an update trigger that adds the new entry without removing the old one
chunks_au_AddOnly(old, new) == << [cmd |-> "insert", row |-> new] >>

\* db.py:80-86   AFTER UPDATE: remove the entry of the old row, add the new one
chunks_au(old, new) ==
    << [cmd |-> "delete", row |-> old], [cmd |-> "insert", row |-> new] >>

\* INSERT INTO chunks_fts(rowid, ...) and INSERT INTO chunks_fts(chunks_fts, ...)
\* VALUES ('delete', ...) on the index
FtsApply(fts, c) ==
    IF c.cmd = "insert" THEN fts (+) SetToBag({c.row})
    ELSE fts (-) SetToBag({c.row})

\* a failed statement that keeps what it had done up to the failure (OR FAIL)
StmtAbortKeepsPartial(jc, jf, wc, wf) == <<wc, wf>>

\* db.py:65-87: the triggers and the statements in them carry no conflict
\* clause and no RAISE, so a failure inside a trigger aborts the statement that
\* fired it and backs out all that the statement did (tables as journalled)
StmtAbort(jc, jf, wc, wf) == <<jc, jf>>

SyncOff ==
    /\ chunks = {}
    /\ chunks_fts = EmptyBag
    /\ st_pc = "off"
    /\ st_op = NoOp
    /\ wchunks = {}
    /\ wfts = EmptyBag
    /\ prog = <<>>
    /\ pre_chunks = {}
    /\ pre_fts = EmptyBag
    /\ sq_result = "none"

\* db.py:18-90 init_db on a new database: empty tables, triggers installed
SyncInit ==
    /\ chunks = {}
    /\ chunks_fts = EmptyBag
    /\ st_pc = "idle"
    /\ st_op = NoOp
    /\ wchunks = {}
    /\ wfts = EmptyBag
    /\ prog = <<>>
    /\ pre_chunks = {}
    /\ pre_fts = EmptyBag
    /\ sq_result = "none"

\* a statement begins: journal the tables, change the row, queue the trigger
Begin(kind, old, new, rows, commands) ==
    /\ st_pc' = "running"
    /\ st_op' = [kind |-> kind, old |-> old, new |-> new,
                 steps |-> Len(commands), failed |-> 0]
    /\ pre_chunks' = chunks
    /\ pre_fts' = chunks_fts
    /\ wchunks' = rows
    /\ wfts' = chunks_fts
    /\ prog' = commands
    /\ sq_result' = "none"
    /\ UNCHANGED <<chunks, chunks_fts>>

\* a statement that violates PRIMARY KEY (db.py:41) changes nothing
Rejected(kind) ==
    /\ st_op' = [kind |-> kind, old |-> NoRow, new |-> NoRow, steps |-> 0, failed |-> 0]
    /\ pre_chunks' = chunks
    /\ pre_fts' = chunks_fts
    /\ sq_result' = "constraint"
    /\ UNCHANGED <<chunks, chunks_fts, st_pc, wchunks, wfts, prog>>

\* INSERT INTO chunks (chunk_id, ..., text) VALUES (cid, ..., t)
InsertChunk ==
    /\ st_pc = "idle"
    /\ \E cid \in ChunkIds, t \in RowTexts :
          /\ cid \notin {r.chunk_id : r \in chunks}
          /\ NextRowid(chunks) <= MaxRowid
          /\ LET new == [rowid |-> NextRowid(chunks), chunk_id |-> cid, text |-> t]
             IN  Begin("insert", NoRow, new, chunks \cup {new}, chunks_ai(new))
    /\ UNCHANGED <<chunkVars, indexVars>>

InsertDuplicate ==
    /\ st_pc = "idle"
    /\ \E cid \in ChunkIds : cid \in {r.chunk_id : r \in chunks}
    /\ Rejected("insert")
    /\ UNCHANGED <<chunkVars, indexVars>>

\* UPDATE chunks SET chunk_id = cid, text = t WHERE rowid = old.rowid
UpdateChunk ==
    /\ st_pc = "idle"
    /\ \E old \in chunks, cid \in ChunkIds, t \in RowTexts :
          /\ cid \notin {r.chunk_id : r \in chunks \ {old}}
          /\ LET new == [rowid |-> old.rowid, chunk_id |-> cid, text |-> t]
             IN  Begin("update", old, new, (chunks \ {old}) \cup {new}, chunks_au(old, new))
    /\ UNCHANGED <<chunkVars, indexVars>>

UpdateDuplicate ==
    /\ st_pc = "idle"
    /\ \E old \in chunks, cid \in ChunkIds :
          cid \in {r.chunk_id : r \in chunks \ {old}}
    /\ Rejected("update")
    /\ UNCHANGED <<chunkVars, indexVars>>

\* DELETE FROM chunks WHERE rowid = old.rowid
DeleteChunk ==
    /\ st_pc = "idle"
    /\ \E old \in chunks :
          Begin("delete", old, NoRow, chunks \ {old}, chunks_ad(old))
    /\ UNCHANGED <<chunkVars, indexVars>>

\* the next statement of the trigger body runs
TriggerStep ==
    /\ st_pc = "running"
    /\ prog # <<>>
    /\ wfts' = FtsApply(wfts, Head(prog))
    /\ prog' = Tail(prog)
    /\ UNCHANGED <<chunks, chunks_fts, st_pc, st_op, wchunks, pre_chunks, pre_fts, sq_result>>
    /\ UNCHANGED <<chunkVars, indexVars>>

\* the next statement of the trigger body fails (I/O error, full disk, ...)
TriggerFail ==
    /\ st_pc = "running"
    /\ prog # <<>>
    /\ LET after == StmtAbort(pre_chunks, pre_fts, wchunks, wfts)
       IN  /\ chunks' = after[1]
           /\ chunks_fts' = after[2]
    /\ st_op' = [st_op EXCEPT !.failed = st_op.steps - Len(prog) + 1]
    /\ st_pc' = "idle"
    /\ wchunks' = {}
    /\ wfts' = EmptyBag
    /\ prog' = <<>>
    /\ sq_result' = "error"
    /\ UNCHANGED <<pre_chunks, pre_fts>>
    /\ UNCHANGED <<chunkVars, indexVars>>

\* the trigger body is through: the statement ends and its changes are seen
StatementEnd ==
    /\ st_pc = "running"
    /\ prog = <<>>
    /\ chunks' = wchunks
    /\ chunks_fts' = wfts
    /\ st_pc' = "idle"
    /\ wchunks' = {}
    /\ wfts' = EmptyBag
    /\ sq_result' = "ok"
    /\ UNCHANGED <<st_op, prog, pre_chunks, pre_fts>>
    /\ UNCHANGED <<chunkVars, indexVars>>


(***************************************************************************)
(* search.py: build_faiss_index, load_index, semantic_search; main.py:     *)
(* the /search handler.  A chunk record of documents.jsonl is              *)
(* [id, title, text].  A persisted file is missing, partly written or      *)
(* complete; `src` remembers the records it was built from.                *)
(***************************************************************************)
MaxDocs == 2        \* most chunk records in documents.jsonl
MaxTopK == 3        \* largest top_k asked for

DocIds    == {"doc_0_chunk_0", "doc_0_chunk_1", "doc_1_chunk_0"}
Queries   == {"wireless sensor", "sensor battery"}
Metrics   == {"l2", "cosine", "bogus"}

TitleOf(id) == <<id, "title">>

\* chunk records are immutable: each id has its text (two chunks share one)
TextOf(id) == IF id = "doc_0_chunk_1" THEN "battery lifetime" ELSE "wireless sensor"

DocRecords == {[id |-> i, title |-> TitleOf(i), text |-> TextOf(i)] : i \in DocIds}

\* the contents documents.jsonl can have: records with distinct ids
Datasets ==
    {d \in UNION {[1..n -> DocRecords] : n \in 0..MaxDocs} :
        \A i, j \in DOMAIN d : i # j => d[i].id # d[j].id}

\* search.py:43, search.py:93  model.encode: a deterministic black box
Embed(t) ==
    CASE t = "wireless sensor"  -> <<1, 0>>
      [] t = "battery lifetime" -> <<0, 2>>
      [] t = "sensor battery"   -> <<1, 1>>
      [] OTHER                  -> <<0, 0>>

\* the squared Euclidean distance IndexFlatL2 reports (search.py:51)
SqDist(u, v) == (u[1] - v[1]) * (u[1] - v[1]) + (u[2] - v[2]) * (u[2] - v[2])

DigitChar == <<"0", "1", "2", "3", "4", "5", "6", "7", "8", "9">>

RECURSIVE Digits(_)
Digits(n) ==
    IF n < 10 THEN <<DigitChar[n + 1]>>
    ELSE Digits(n \div 10) \o <<DigitChar[(n % 10) + 1]>>

\* str(i), and the key json.dump writes for the int key i (search.py:64, 101)
Str(i) == IF i < 0 THEN <<"-">> \o Digits(0 - i) ELSE Digits(i)

\* search.py:40-55  the vectors added to the index, in the order of docs
EncodeAll(docs) == [i \in DOMAIN docs |-> Embed(docs[i].text)]

\* a mapping whose positions start at 1 instead of 0
MetaOfFromOne(docs) ==
    [k \in {Str(i) : i \in 1..Len(docs)} |->
        LET i == CHOOSE i \in 1..Len(docs) : Str(i) = k
        IN  [id |-> docs[i].id, title |-> docs[i].title]]

\* search.py:62-64  meta as json.dump writes it: position i -> docs[i], the
\* keys turned into strings
MetaOf(docs) ==
    [k \in {Str(i) : i \in 0..(Len(docs) - 1)} |->
        LET i == CHOOSE i \in 0..(Len(docs) - 1) : Str(i) = k
        IN  [id |-> docs[i + 1].id, title |-> docs[i + 1].title]]

NoFile == [state |-> "missing", src |-> <<>>, content |-> <<>>]
Partial(docs) == [state |-> "partial", src |-> docs, content |-> <<>>]
Complete(docs, c) == [state |-> "complete", src |-> docs, content |-> c]

\* position p comes before position r in the result of a flat L2 search:
\* nearer first, the lower position first among equals
Before(vectors, q, p, r) ==
    LET dp == SqDist(vectors[p + 1], q)
        dr == SqDist(vectors[r + 1], q)
    IN  dp < dr \/ (dp = dr /\ p < r)

\* the stored positions from the nearest to the farthest
Ranked(vectors, q) ==
    [j \in 1..Len(vectors) |->
        CHOOSE p \in 0..(Len(vectors) - 1) :
            Cardinality({r \in 0..(Len(vectors) - 1) : Before(vectors, q, r, p)}) = j - 1]

\* search.py:97  index.search(query_embedding, top_k): k (distance, label)
\* pairs; when the index holds fewer than k vectors the rest are label -1
FaissSearch(vectors, q, k) ==
    [j \in 1..k |->
        IF j <= Len(vectors)
        THEN [idx |-> Ranked(vectors, q)[j],
              dist |-> SqDist(vectors[Ranked(vectors, q)[j] + 1], q)]
        ELSE [idx |-> -1, dist |-> "FLT_MAX"]]

\* search.py:89  the parameters of semantic_search
SemanticSearchParams == {"query", "top_k"}

\* main.py:9-13  the keywords the handler passes
HandlerKeywords == {"query", "top_k", "metric"}

\* main.py:8  the metric values the handler declares
SupportedMetrics == {"l2", "cosine"}

\* a Python call with keyword arguments binds only the function's parameters
Binds(params, keywords) == keywords \subseteq params

IndexOff ==
    /\ index_file = NoFile
    /\ meta_file = NoFile
    /\ b_pc = "off"
    /\ b_docs = <<>>
    /\ b_index = <<>>
    /\ b_outcome = "none"
    /\ s_pc = "off"
    /\ s_entry = "none"
    /\ s_query = ""
    /\ s_top_k = 0
    /\ s_metric = ""
    /\ s_index = NoFile
    /\ s_meta = NoFile
    /\ s_results = <<>>
    /\ s_outcome = "none"

\* nothing built yet
IndexInit ==
    /\ index_file = NoFile
    /\ meta_file = NoFile
    /\ b_pc = "idle"
    /\ b_docs = <<>>
    /\ b_index = <<>>
    /\ b_outcome = "none"
    /\ s_pc = "idle"
    /\ s_entry = "none"
    /\ s_query = ""
    /\ s_top_k = 0
    /\ s_metric = ""
    /\ s_index = NoFile
    /\ s_meta = NoFile
    /\ s_results = <<>>
    /\ s_outcome = "none"

searchVars == <<s_pc, s_entry, s_query, s_top_k, s_metric, s_index, s_meta, s_results, s_outcome>>
buildVars == <<index_file, meta_file, b_pc, b_docs, b_index, b_outcome>>

\* search.py:39-55  load the records, encode them, fill the in-memory index
BuildEncode ==
    /\ b_pc = "idle"
    /\ \E docs \in Datasets :
          /\ Len(docs) > 0
          /\ b_docs' = docs
          /\ b_index' = EncodeAll(docs)
    /\ b_pc' = "encoded"
    /\ b_outcome' = "none"
    /\ UNCHANGED <<index_file, meta_file>>
    /\ UNCHANGED <<chunkVars, syncVars, searchVars>>

\* search.py:47  embeddings.shape[1] of the encoding of no text at all
BuildEmpty ==
    /\ b_pc = "idle"
    /\ b_docs' = <<>>
    /\ b_index' = <<>>
    /\ b_outcome' = "IndexError"
    /\ UNCHANGED <<index_file, meta_file, b_pc>>
    /\ UNCHANGED <<chunkVars, syncVars, searchVars>>

\* search.py:59  faiss.write_index opens INDEX_PATH for writing ...
BuildIndexOpen ==
    /\ b_pc = "encoded"
    /\ index_file' = Partial(b_docs)
    /\ b_pc' = "index_open"
    /\ UNCHANGED <<meta_file, b_docs, b_index, b_outcome>>
    /\ UNCHANGED <<chunkVars, syncVars, searchVars>>

\* ... and has written it
BuildIndexWritten ==
    /\ b_pc = "index_open"
    /\ index_file' = Complete(b_docs, b_index)
    /\ b_pc' = "index_written"
    /\ UNCHANGED <<meta_file, b_docs, b_index, b_outcome>>
    /\ UNCHANGED <<chunkVars, syncVars, searchVars>>

\* search.py:62-63  open(META_PATH, 'w') truncates the file
BuildMetaOpen ==
    /\ b_pc = "index_written"
    /\ meta_file' = Partial(b_docs)
    /\ b_pc' = "meta_open"
    /\ UNCHANGED <<index_file, b_docs, b_index, b_outcome>>
    /\ UNCHANGED <<chunkVars, syncVars, searchVars>>

\* search.py:64-69  json.dump, close, return
BuildMetaWritten ==
    /\ b_pc = "meta_open"
    /\ meta_file' = Complete(b_docs, MetaOf(b_docs))
    /\ b_pc' = "idle"
    /\ b_outcome' = "ok"
    /\ UNCHANGED <<index_file, b_docs, b_index>>
    /\ UNCHANGED <<chunkVars, syncVars, searchVars>>

\* semantic_search(query, top_k) is called
SearchDirect ==
    /\ s_pc = "idle"
    /\ \E q \in Queries, k \in 1..MaxTopK :
          /\ s_query' = q
          /\ s_top_k' = k
    /\ s_entry' = "direct"
    /\ s_metric' = ""
    /\ s_pc' = "read_index"
    /\ s_index' = NoFile
    /\ s_meta' = NoFile
    /\ s_results' = <<>>
    /\ s_outcome' = "none"
    /\ UNCHANGED <<chunkVars, syncVars, buildVars>>

\* main.py:7-14  POST /search?metric=m: the handler calls
\* semantic_search(query=..., top_k=..., metric=m)
SearchEndpoint ==
    /\ s_pc = "idle"
    /\ \E q \in Queries, k \in 1..MaxTopK, m \in Metrics :
          /\ s_query' = q
          /\ s_top_k' = k
          /\ s_metric' = m
    /\ s_entry' = "endpoint"
    /\ s_index' = NoFile
    /\ s_meta' = NoFile
    /\ s_results' = <<>>
    /\ IF Binds(SemanticSearchParams, HandlerKeywords)
       THEN s_pc' = "read_index" /\ s_outcome' = "none"
       ELSE s_pc' = "done" /\ s_outcome' = "TypeError"
    /\ UNCHANGED <<chunkVars, syncVars, buildVars>>

\* search.py:78  faiss.read_index(INDEX_PATH)
LoadIndexRead ==
    /\ s_pc = "read_index"
    /\ IF index_file.state = "complete"
       THEN s_index' = index_file /\ s_pc' = "read_meta" /\ s_outcome' = s_outcome
       ELSE s_index' = s_index /\ s_pc' = "done" /\ s_outcome' = "RuntimeError"
    /\ UNCHANGED <<s_entry, s_query, s_top_k, s_metric, s_meta, s_results>>
    /\ UNCHANGED <<chunkVars, syncVars, buildVars>>

\* search.py:79-81  open(META_PATH), json.load
LoadMetaRead ==
    /\ s_pc = "read_meta"
    /\ IF meta_file.state = "complete"
       THEN s_meta' = meta_file /\ s_pc' = "search" /\ s_outcome' = s_outcome
       ELSE /\ s_meta' = s_meta
            /\ s_pc' = "done"
            /\ s_outcome' = IF meta_file.state = "missing"
                            THEN "FileNotFoundError" ELSE "JSONDecodeError"
    /\ UNCHANGED <<s_entry, s_query, s_top_k, s_metric, s_index, s_results>>
    /\ UNCHANGED <<chunkVars, syncVars, buildVars>>

\* search.py:100-106  the result rows for the first n hits
RECURSIVE ResultRows(_, _, _)
ResultRows(hits, meta, n) ==
    IF n = 0 THEN <<>>
    ELSE Append(ResultRows(hits, meta, n - 1),
                [doc_id |-> meta[Str(hits[n].idx)].id,
                 title  |-> meta[Str(hits[n].idx)].title,
                 score  |-> hits[n].dist])

\* search.py:93-107  encode the query, search, resolve every hit in meta
SearchRun ==
    /\ s_pc = "search"
    /\ LET hits == FaissSearch(s_index.content, Embed(s_query), s_top_k)
           ok == \A j \in DOMAIN hits : Str(hits[j].idx) \in DOMAIN s_meta.content
       IN  IF ok
           THEN /\ s_results' = ResultRows(hits, s_meta.content, Len(hits))
                /\ s_outcome' = "ok"
           ELSE /\ s_results' = <<>>
                /\ s_outcome' = "KeyError"
    /\ s_pc' = "done"
    /\ UNCHANGED <<s_entry, s_query, s_top_k, s_metric, s_index, s_meta>>
    /\ UNCHANGED <<chunkVars, syncVars, buildVars>>

\* the call is over; the next one may come
SearchReturn ==
    /\ s_pc = "done"
    /\ s_pc' = "idle"
    /\ s_entry' = "none"
    /\ s_query' = ""
    /\ s_top_k' = 0
    /\ s_metric' = ""
    /\ s_index' = NoFile
    /\ s_meta' = NoFile
    /\ s_results' = <<>>
    /\ s_outcome' = "none"
    /\ UNCHANGED <<chunkVars, syncVars, buildVars>>

InitIndex == IndexInit /\ ChunkOff /\ SyncOff
NextIndex ==
    \/ BuildEncode \/ BuildEmpty \/ BuildIndexOpen \/ BuildIndexWritten
    \/ BuildMetaOpen \/ BuildMetaWritten
    \/ SearchDirect \/ SearchEndpoint \/ LoadIndexRead \/ LoadMetaRead
    \/ SearchRun \/ SearchReturn
SpecIndex == InitIndex /\ [][NextIndex]_vars

\* builds alone, no search running
InitBuild == IndexInit /\ ChunkOff /\ SyncOff
NextBuild ==
    \/ BuildEncode \/ BuildEmpty \/ BuildIndexOpen \/ BuildIndexWritten
    \/ BuildMetaOpen \/ BuildMetaWritten
SpecBuild == InitBuild /\ [][NextBuild]_vars

(***************************************************************************)
(* The specifications                                                      *)
(***************************************************************************)
InitSync == SyncInit /\ ChunkOff /\ IndexOff
NextSync ==
    \/ InsertChunk \/ InsertDuplicate \/ UpdateChunk \/ UpdateDuplicate
    \/ DeleteChunk \/ TriggerStep \/ TriggerFail \/ StatementEnd
SpecSync == InitSync /\ [][NextSync]_vars

InitChunk == ChunkInit /\ SyncOff /\ IndexOff
NextChunk == ChunkEnter \/ ChunkIterate \/ ChunkExit
SpecChunk == InitChunk /\ [][NextChunk]_vars

(***************************************************************************)
(* Properties of sliding_window_chunk                                      *)
(***************************************************************************)
ValidConfig == window_size > 0 /\ 0 <= overlap /\ overlap < window_size

CeilDiv(a, b) == (a + b - 1) \div b

\* C5: for a valid (window_size, overlap) a finished call over L > 0 tokens has
\* returned ceil(max(L - overlap, 1) / (window_size - overlap)) chunks, every
\* window before the last has its unclamped end below L, the last one has it
\* at or beyond L and holds the tokens up to the end; L = 0 gives no chunk.
C5_ChunkCount ==
    (ck_pc = "done" /\ ValidConfig) =>
        LET T == split(text)
            L == Len(T)
            n == Len(chunks_out)
            stride == window_size - overlap
        IN  IF L = 0 THEN n = 0
            ELSE /\ n = CeilDiv(Max(L - overlap, 1), stride)
                 /\ (n - 1) * stride + window_size >= L
                 /\ \A k \in 0..(n - 2) : k * stride + window_size < L
                 /\ chunks_out[n] = join(SubSeq(T, (n - 1) * stride + 1, L))

\* a finished valid call with overlap, three chunks and a clamped last window
C5_Witness ==
    /\ ck_pc = "done" /\ ValidConfig
    /\ overlap > 0
    /\ Len(chunks_out) = 3
    /\ Len(split(chunks_out[3])) < window_size

\* the tokens of a chunk after its first n tokens
DropTokens(chunk, n) ==
    LET t == split(chunk) IN SubSeq(t, n + 1, Len(t))

RECURSIVE Reconstruct(_, _, _)
Reconstruct(cs, i, ov) ==
    IF i > Len(cs) THEN <<>>
    ELSE (IF i = 1 THEN split(cs[1]) ELSE DropTokens(cs[i], ov))
         \o Reconstruct(cs, i + 1, ov)

\* C6: for a valid (window_size, overlap), the first chunk in full followed by
\* every later chunk without its first `overlap` tokens is exactly the token
\* sequence of the text; window_size = 4, overlap = 1 on a..g gives
\* "a b c d", "d e f g".
C6_Reconstruction ==
    (ck_pc = "done" /\ ValidConfig) =>
        /\ Reconstruct(chunks_out, 1, overlap) = split(text)
        /\ (text = ExampleText /\ window_size = 4 /\ overlap = 1) =>
               chunks_out = << <<"a", " ", "b", " ", "c", " ", "d">>,
                               <<"d", " ", "e", " ", "f", " ", "g">> >>

\* the literal case has run to its end with two chunks
C6_Witness ==
    /\ ck_pc = "done"
    /\ text = ExampleText /\ window_size = 4 /\ overlap = 1
    /\ Len(chunks_out) = 2

\* C7: a call with overlap >= window_size ends in ConfigurationError and never
\* returns a chunk list.
C7_ConfigurationError ==
    (overlap >= window_size /\ ck_pc # "call") =>
        /\ ck_outcome # "returned"
        /\ ck_pc = "done" => ck_outcome = "ConfigurationError"

\* with overlap >= window_size and more tokens than one window the loop is
\* still running when the iteration cap is reached, start never having advanced
C7_StillLooping ==
    /\ overlap >= window_size
    /\ ck_pc = "loop"
    /\ Len(chunks_out) = MaxChunks
    /\ start <= 0

(***************************************************************************)
(* Properties of the trigger-driven synchronisation                        *)
(***************************************************************************)
Pairs(rows) == {<<r.chunk_id, r.text>> : r \in rows}

EntriesOf(fts, cid) == {e \in BagToSet(fts) : e.chunk_id = cid}

\* C2: an update X -> Y reaches the index as the removal of the X entry
\* followed by the addition of the Y entry, and nobody sees it half done: while
\* the update runs the index shows the X entry alone, once it has ended the Y
\* entry alone, and at all times every chunk of the table has one entry.
C2_UpdateAtomic ==
    /\ \A r \in chunks :
          /\ EntriesOf(chunks_fts, r.chunk_id) = {r}
          /\ CopiesIn(r, chunks_fts) = 1
    /\ (st_op.kind = "update" /\ st_pc = "running") =>
          /\ st_op.steps = 2
          /\ prog = SubSeq(<< [cmd |-> "delete", row |-> st_op.old],
                              [cmd |-> "insert", row |-> st_op.new] >>,
                           3 - Len(prog), 2)
          /\ st_op.old \in chunks
          /\ EntriesOf(chunks_fts, st_op.old.chunk_id) = {st_op.old}
    /\ (st_op.kind = "update" /\ st_pc = "idle" /\ sq_result = "ok") =>
          /\ st_op.new \in chunks
          /\ CopiesIn(st_op.new, chunks_fts) = 1
          /\ st_op.old # st_op.new =>
                (st_op.old \notin chunks /\ CopiesIn(st_op.old, chunks_fts) = 0)

\* an update of X to Y is between its two halves: in the statement's own copy
\* the X entry is gone and the Y entry not yet there, while readers see X
C2_Witness ==
    /\ st_pc = "running" /\ st_op.kind = "update"
    /\ st_op.old.text # st_op.new.text
    /\ Len(prog) = 1
    /\ EntriesOf(wfts, st_op.old.chunk_id) = {}
    /\ EntriesOf(chunks_fts, st_op.old.chunk_id) = {st_op.old}

\* C3: when a half of the propagation fails, the write fails with it and
\* chunks and chunks_fts are as they were before the write; the index is never
\* behind the table.
C3_FailureRollsBack ==
    /\ (st_pc = "idle" /\ sq_result = "error") =>
          /\ chunks = pre_chunks
          /\ chunks_fts = pre_fts
    /\ BagToSet(chunks_fts) = chunks

\* an update whose second half (the addition) failed after the removal ran
C3_Witness ==
    /\ st_pc = "idle" /\ sq_result = "error"
    /\ st_op.kind = "update" /\ st_op.failed = 2
    /\ st_op.old.text # st_op.new.text
    /\ st_op.old \in chunks

(***************************************************************************)
(* Properties of the index build and of the search                         *)
(***************************************************************************)
\* C4: whenever load_index has read both files, the index and the metadata
\* come from one and the same build.
C4_LoadedPairFromOneBuild ==
    (s_index.state = "complete" /\ s_meta.state = "complete") =>
        s_index.src = s_meta.src

\* C8: after a completed build over N records the index and the metadata
\* both hold N entries, and for every position i the metadata entry at i names
\* the i-th record, whose embedding is the vector at position i.
C8_BuildAligned ==
    (b_pc = "idle" /\ b_outcome = "ok") =>
        LET N == Len(b_docs)
            vec == index_file.content
            meta == meta_file.content
        IN  /\ index_file.state = "complete" /\ meta_file.state = "complete"
            /\ Len(vec) = N
            /\ Cardinality(DOMAIN meta) = N
            /\ \A i \in 0..(N - 1) :
                  /\ Str(i) \in DOMAIN meta
                  /\ meta[Str(i)].id = b_docs[i + 1].id
                  /\ vec[i + 1] = Embed(b_docs[i + 1].text)

\* a build over two records with different texts has completed
C8_Witness ==
    /\ b_pc = "idle" /\ b_outcome = "ok"
    /\ Len(b_docs) = 2
    /\ b_docs[1].text # b_docs[2].text
    /\ meta_file.src = b_docs /\ index_file.src = b_docs

\* C9: a search over a built index of N >= 1 chunks with top_k > 0 returns
\* min(top_k, N) results: the nearest positions, in non-decreasing score order,
\* the lower position first among equal scores, each with the metadata of its
\* position, and no lookup fails.
C9_TopKResults ==
    (/\ s_pc = "done" /\ s_entry = "direct"
     /\ s_index.state = "complete" /\ s_meta.state = "complete"
     /\ s_index.src = s_meta.src) =>
        LET vec == s_index.content
            N == Len(vec)
            q == Embed(s_query)
            n == Min(s_top_k, N)
        IN  /\ s_outcome = "ok"
            /\ Len(s_results) = n
            /\ \E ps \in [1..n -> 0..(N - 1)] :
                  /\ \A j \in 1..n :
                        /\ s_results[j].doc_id = s_index.src[ps[j] + 1].id
                        /\ s_results[j].score = SqDist(vec[ps[j] + 1], q)
                  /\ \A j, j2 \in 1..n : j < j2 => Before(vec, q, ps[j], ps[j2])
                  /\ \A p \in (0..(N - 1)) \ {ps[j] : j \in 1..n} :
                        \A j \in 1..n : Before(vec, q, ps[j], p)

\* C10: a request to the endpoint with an unsupported metric ends in
\* UnknownMetricError and returns no result list.
C10_UnknownMetricError ==
    (s_pc = "done" /\ s_entry = "endpoint" /\ s_metric \notin SupportedMetrics) =>
        /\ s_outcome = "UnknownMetricError"
        /\ s_results = <<>>

=============================================================================
